---- MODULE Spec2Model ----
(***************************************************************************)
(* A model of the rusty-chip8 emulator core: the 4 KiB address space of    *)
(* src/mem.rs (get / set / set_byte / load_sprite) and the machine of      *)
(* src/systems.rs (init / load_program / exec_instruction).                *)
(*                                                                         *)
(* Integers keep the width they have in the Rust source.  An arithmetic    *)
(* overflow is a panic when the build has overflow checks (cargo's dev     *)
(* profile) and a two's-complement wrap when it has not (the release       *)
(* profile); the variable overflow_checks picks the build.                 *)
(***************************************************************************)
EXTENDS Integers, Sequences, FiniteSets, TLC

VARIABLES
    i,              \* Chip8.i               index register (u16)
    sp,             \* Chip8.sp              stack pointer (u16)
    pc,             \* Chip8.pc              program counter (u16)
    v,              \* Chip8.v               V0..VF, a function 0..15 -> u8
    delay,          \* Chip8.delay           delay timer (u8)
    sound,          \* Chip8.sound           sound timer (u8)
    ram,            \* Chip8.ram.ram         the 4096 bytes, a sequence
    draw_allowed,   \* Chip8.draw_allowed    the draw gate
    waitkey_state,  \* Chip8.waitkey_state   <<pending key or None, destination register>>
    pc_backtrace,   \* Chip8.pc_backtrace    [trace, cur]
    frame_elapsed,  \* last_frame.elapsed() >= 16666666 ns
    overflow_checks,\* the build panics on integer overflow (TRUE) or wraps (FALSE)
    phase,          \* where the caller is: "init", "run", "halted", "crashed", "mem"
    result,         \* outcome of the last call: "None", "Ok", "Panic" or an error kind
    last,           \* the last call: its operation, its arguments, what it returned
    prev,           \* the call before the last one
    ncalls,         \* number of calls made: on the bare address space, or of exec_instruction
    nstalls,        \* number of calls of exec_instruction that stalled or retried
    app,            \* main.rs: the World, its RwLock and where the two threads are
    frames,         \* CALLs not yet returned from: <<[p, sp, top]>>, the CALL's address,
                    \* SP before it and the two stack bytes after it
    last_store      \* the last STORE that returned, while memory is as it left it:
                    \* [i, x, v], I and V0..VF before it; else NoStore

vars == <<i, sp, pc, v, delay, sound, ram, draw_allowed, waitkey_state,
          pc_backtrace, frame_elapsed, overflow_checks, phase, result,
          last, prev, ncalls, nstalls, app, frames, last_store>>

cpu_vars == <<i, sp, pc, v, delay, sound, draw_allowed, waitkey_state,
              pc_backtrace, frame_elapsed, frames, last_store>>

(***************************************************************************)
(* Program constants                                                       *)
(***************************************************************************)
RAM_SIZE == 4096
CHIP8_PC_START == 512
CHIP8_DISP_BUF_ADDR == 3840
CHIP8_DISP_BUF_LEN == 256
CHIP8_DISP_WIDTH == 64
CHIP8_DISP_HEIGHT == 32
CHIP8_STACK_BASE_ADDR == 3744
CHIP8_MAX_PROG_SIZE == CHIP8_STACK_BASE_ADDR - CHIP8_PC_START
CHIP8_FONT_START == 80
CHIP8_FONT_HEIGHT == 5
BACKTRACE_SIZE == 20
U8 == 2 ^ 8
U16 == 2 ^ 16

(***************************************************************************)
(* Bounds of the model                                                     *)
(***************************************************************************)
MaxCalls == 2

(***************************************************************************)
(* Bit operations on bytes                                                 *)
(***************************************************************************)
Bit(b, k) == (b \div (2 ^ k)) % 2

BitAnd(a, b) ==
    Bit(a,0)*Bit(b,0) + 2*Bit(a,1)*Bit(b,1) + 4*Bit(a,2)*Bit(b,2)
    + 8*Bit(a,3)*Bit(b,3) + 16*Bit(a,4)*Bit(b,4) + 32*Bit(a,5)*Bit(b,5)
    + 64*Bit(a,6)*Bit(b,6) + 128*Bit(a,7)*Bit(b,7)

\* |= written for ^=
BitXorAsOr(a, b) == a + b - BitAnd(a, b)

BitXor(a, b) ==
    ((Bit(a,0)+Bit(b,0)) % 2) + 2*((Bit(a,1)+Bit(b,1)) % 2)
    + 4*((Bit(a,2)+Bit(b,2)) % 2) + 8*((Bit(a,3)+Bit(b,3)) % 2)
    + 16*((Bit(a,4)+Bit(b,4)) % 2) + 32*((Bit(a,5)+Bit(b,5)) % 2)
    + 64*((Bit(a,6)+Bit(b,6)) % 2) + 128*((Bit(a,7)+Bit(b,7)) % 2)

BitOr(a, b) == a + b - BitAnd(a, b)

\* u8::checked_shr(k).unwrap_or(0)
checked_shr(s, k) == IF k >= 8 THEN 0 ELSE s \div (2 ^ k)

\* u8::checked_shl(k).unwrap_or(0)
checked_shl(s, k) == IF k >= 8 THEN 0 ELSE (s * (2 ^ k)) % U8

\* u16::from_be_bytes([hi, lo]) and u16::to_be_bytes
from_be_bytes(hi, lo) == hi * 256 + lo
to_be_bytes(w) == << w \div 256, w % 256 >>

(***************************************************************************)
(* src/mem.rs: the address space                                           *)
(***************************************************************************)
\* The 4096 bytes are a sequence: the byte at address a is element a + 1.
Byte(mem, a) == mem[a + 1]

\* Chip8Mem::new
Mem_new == [a \in 1..RAM_SIZE |-> 0]

\* Memory16Bit::get: the slice ram[addr .. addr + len], None when it is out of range
Mem_get(mem, addr, len) ==
    IF addr + len <= RAM_SIZE
    THEN [res |-> "Ok", bytes |-> SubSeq(mem, addr + 1, addr + len)]
    ELSE [res |-> "InvalidAccessError", bytes |-> << >>]

\* Memory16Bit::set: the guard computes addr + len - 1 in usize; the bytes at
\* addr .. addr + len - 1 are replaced and every other byte is copied
Mem_set(mem, addr, content, oc) ==
    LET n == Len(content)
        underflow == addr + n - 1 < 0
    IN  IF underflow /\ oc
        THEN [res |-> "Panic", ram |-> mem]
        ELSE IF underflow \/ addr + n - 1 > 4095   \* a wrapped usize is above 0xFFF
        THEN [res |-> "InvalidAccessError", ram |-> mem]
        ELSE [res |-> "Ok",
              ram |-> SubSeq(mem, 1, addr) \o content \o SubSeq(mem, addr + n + 1, RAM_SIZE)]

\* Memory16Bit::set_byte
Mem_set_byte(mem, addr, content) ==
    IF addr > 4095
    THEN [res |-> "InvalidAccessError", ram |-> mem]
    ELSE [res |-> "Ok", ram |-> [mem EXCEPT ![addr + 1] = content]]

\* the display buffer, as a sequence of 256 bytes
DisplayOf(mem) == Mem_get(mem, CHIP8_DISP_BUF_ADDR, CHIP8_DISP_BUF_LEN).bytes

\* Chip8Mem::load_sprite.  The result is [res, ram, flag]; a panic leaves ram as it
\* was, because the function works on a copy of the display buffer.
load_sprite(mem, sprite, x_uncapped, y_uncapped, n, oc) ==
    LET xa == BitAnd(x_uncapped, CHIP8_DISP_WIDTH % U8)
        ya == BitAnd(y_uncapped, CHIP8_DISP_HEIGHT % U8)
        x_under == xa - 1 < 0
        y_under == ya - 1 < 0
        x == IF x_under THEN U8 - 1 ELSE xa - 1
        y == IF y_under THEN U8 - 1 ELSE ya - 1
        fb == Mem_get(mem, CHIP8_DISP_BUF_ADDR, CHIP8_DISP_BUF_LEN).bytes
        row_bytes == CHIP8_DISP_WIDTH \div 8
        \* the filter's conditions before (y + n), which is evaluated last
        In3(k) == LET fb_x == k % row_bytes
                      fb_y == k \div row_bytes
                  IN  x \div 8 <= fb_x /\ fb_x <= (x \div 8) + 1 /\ y <= fb_y
        sum_over == y + n >= U8
        Keep(k) == In3(k) /\ (k \div row_bytes) < ((y + n) % U8)
        touched == SelectSeq([k \in 1..CHIP8_DISP_BUF_LEN |-> k - 1], Keep)
        SpriteIdx(j) == IF x \div 8 = 7 THEN j ELSE j \div 2
        Shifted(j) == IF x \div 8 = 7 THEN checked_shr(sprite[SpriteIdx(j) + 1], x % 8)
                      ELSE IF j % 2 = 0
                      THEN checked_shr(sprite[SpriteIdx(j) + 1], x % 8)
                      ELSE checked_shl(sprite[SpriteIdx(j) + 1], 8 - (x % 8))
        JOf(k) == (CHOOSE j \in 1..Len(touched) : touched[j] = k) - 1
        new_fb == [k \in 1..CHIP8_DISP_BUF_LEN |->
                      IF Keep(k - 1) THEN BitXor(fb[k], Shifted(JOf(k - 1))) ELSE fb[k]]
        flag == \E j \in 1..Len(touched) :
                    BitXor(new_fb[touched[j] + 1], Shifted(j - 1)) > 0
        stored == Mem_set(mem, CHIP8_DISP_BUF_ADDR, new_fb, oc)
    IN  IF oc /\ (x_under \/ y_under)
        THEN [res |-> "Panic", ram |-> mem, flag |-> FALSE]
        ELSE IF oc /\ sum_over /\ (\E k \in 0..(CHIP8_DISP_BUF_LEN - 1) : In3(k))
        THEN [res |-> "Panic", ram |-> mem, flag |-> FALSE]
        ELSE IF \E j \in 1..Len(touched) : SpriteIdx(j - 1) >= Len(sprite)
        THEN [res |-> "Panic", ram |-> mem, flag |-> FALSE]
        ELSE [res |-> stored.res, ram |-> stored.ram, flag |-> flag]

(***************************************************************************)
(* Calls on a bare Chip8Mem (the Memory16Bit trait and load_sprite), with  *)
(* arguments drawn from small sets                                         *)
(***************************************************************************)
\* What one call reads of the WinitInputHelper: the keys pressed, held and
\* released in the current input step.
NoInput == [pressed |-> {}, held |-> {}, released |-> {}]

NoCall == [op |-> "none", addr |-> 0, len |-> 0, bytes |-> << >>, x |-> 0, y |-> 0,
           res |-> "None", flag |-> FALSE, mutated |-> FALSE, pre_fb |-> << >>,
           inp |-> NoInput]

GetArgs == { <<0, 0>>, <<0, 4096>>, <<0, 4097>>, <<4095, 1>>, <<4095, 2>>,
             <<4096, 0>>, <<4096, 1>>, <<65535, 65535>> }

SetArgs == { <<0, << >> >>, <<1, << >> >>, <<4096, << >> >>, <<4097, << >> >>,
             <<4095, <<2>> >>, <<4095, <<255>> >>, <<4096, <<1>> >>,
             <<4095, <<170, 85>> >>, <<3840, <<15, 240>> >>, <<65535, <<1>> >> }

SetByteArgs == { <<4095, 3>>, <<4096, 3>>, <<0, 9>> }

SpriteArgs == { <<s, p[1], p[2]>> :
                  s \in { <<128>>, <<255>>, <<128, 255>> },
                  p \in { <<0, 0>>, <<64, 32>>, <<127, 63>>, <<64, 0>>, <<200, 96>> } }

CallEnabled == phase = "mem" /\ ncalls < MaxCalls /\ result # "Panic"

Record(call) ==
    /\ prev' = last
    /\ last' = call
    /\ result' = call.res
    /\ ncalls' = ncalls + 1
    /\ UNCHANGED <<cpu_vars, overflow_checks, phase, nstalls, app>>

CallGet ==
    /\ CallEnabled
    /\ \E a \in GetArgs :
         LET r == Mem_get(ram, a[1], a[2])
         IN  /\ ram' = ram
             /\ Record([NoCall EXCEPT !.op = "get", !.addr = a[1], !.len = a[2],
                                      !.bytes = r.bytes, !.res = r.res])

CallSet ==
    /\ CallEnabled
    /\ \E a \in SetArgs :
         LET r == Mem_set(ram, a[1], a[2], overflow_checks)
         IN  /\ ram' = r.ram
             /\ Record([NoCall EXCEPT !.op = "set", !.addr = a[1], !.len = Len(a[2]),
                                      !.bytes = a[2], !.res = r.res,
                                      !.mutated = (r.ram # ram)])

CallSetByte ==
    /\ CallEnabled
    /\ \E a \in SetByteArgs :
         LET r == Mem_set_byte(ram, a[1], a[2])
         IN  /\ ram' = r.ram
             /\ Record([NoCall EXCEPT !.op = "set_byte", !.addr = a[1], !.len = 1,
                                      !.bytes = <<a[2]>>, !.res = r.res,
                                      !.mutated = (r.ram # ram)])

CallLoadSprite ==
    /\ CallEnabled
    /\ \E a \in SpriteArgs :
         LET r == load_sprite(ram, a[1], a[2], a[3], Len(a[1]), overflow_checks)
         IN  /\ ram' = r.ram
             /\ Record([NoCall EXCEPT !.op = "load_sprite", !.len = Len(a[1]),
                                      !.bytes = a[1], !.x = a[2], !.y = a[3],
                                      !.res = r.res, !.flag = r.flag,
                                      !.mutated = (r.ram # ram),
                                      !.pre_fb = DisplayOf(ram)])

(***************************************************************************)
(* src/systems.rs: the machine                                             *)
(***************************************************************************)
None == "None"
\* no STORE to compare a LOAD with
NoStore == [i |-> 0, x |-> 16, v |-> << >>]

\* Backtrace::new(20)
Backtrace_new == [trace |-> [k \in 0..(BACKTRACE_SIZE - 1) |-> <<0, "">>], cur |-> 0]

\* Chip8::init
Chip8Init ==
    /\ i = 0
    /\ sp = CHIP8_STACK_BASE_ADDR
    /\ pc = CHIP8_PC_START
    /\ v = [r \in 0..15 |-> 0]
    /\ delay = 0
    /\ sound = 0
    /\ ram = Mem_new
    /\ frame_elapsed = FALSE
    /\ draw_allowed = TRUE
    /\ pc_backtrace = Backtrace_new
    /\ waitkey_state = <<None, 0>>
    /\ frames = << >>
    /\ last_store = NoStore

(***************************************************************************)
(* main.rs: the World behind Arc<RwLock<World>>, updated by world_thread    *)
(* and drawn by the event loop                                             *)
(***************************************************************************)
WIDTH == 640
HEIGHT == 480
BOX_SIZE == 64

\* World::new
World_new == [box_x |-> 24, box_y |-> 16, velocity_x |-> 1, velocity_y |-> 1]

\* World::update, one statement at a time: step k of 0..3
World_update(w, k) ==
    CASE k = 0 -> IF w.box_x <= 0 \/ w.box_x + BOX_SIZE > WIDTH
                  THEN [w EXCEPT !.velocity_x = -w.velocity_x] ELSE w
      [] k = 1 -> IF w.box_y <= 0 \/ w.box_y + BOX_SIZE > HEIGHT
                  THEN [w EXCEPT !.velocity_y = -w.velocity_y] ELSE w
      [] k = 2 -> [w EXCEPT !.box_x = w.box_x + w.velocity_x]
      [] k = 3 -> [w EXCEPT !.box_y = w.box_y + w.velocity_y]

\* a read that does not wait for the writer
CanReadUnguarded(a) == TRUE

\* RwLock::write returns when no guard is out; RwLock::read when no write guard is
CanWrite(a) == ~a.writer /\ a.readers = 0
CanRead(a) == ~a.writer

\* the application after main has spawned world_thread: wt and mt are where
\* world_thread and the event loop are, committed is the World as the last
\* finished update left it, seen is what the last draw read
AppInit ==
    [world |-> World_new, writer |-> FALSE, readers |-> 0,
     wt |-> "loop", upd |-> 0, mt |-> "events",
     committed |-> World_new, seen |-> <<24, 16>>, updates |-> 0, redraws |-> 0]

Start(ph) ==
    /\ Chip8Init
    /\ app = AppInit
    /\ overflow_checks \in BOOLEAN
    /\ phase = ph
    /\ result = "None"
    /\ last = NoCall
    /\ prev = NoCall
    /\ ncalls = 0
    /\ nstalls = 0

\* Chip8::is_key_pressed: the key_byte -> KeyCode table
KeyOfByte(key_byte) ==
    CASE key_byte = 0 -> "Numpad0" [] key_byte = 1 -> "Numpad1"
      [] key_byte = 2 -> "Numpad2" [] key_byte = 3 -> "Numpad3"
      [] key_byte = 4 -> "Numpad4" [] key_byte = 5 -> "Numpad5"
      [] key_byte = 6 -> "Numpad6" [] key_byte = 7 -> "Numpad7"
      [] key_byte = 8 -> "Numpad8" [] key_byte = 9 -> "Numpad9"
      [] key_byte = 10 -> "NumpadDecimal" [] key_byte = 11 -> "NumpadEnter"
      [] key_byte = 12 -> "NumpadAdd" [] key_byte = 13 -> "NumpadSubtract"
      [] key_byte = 14 -> "NumpadMultiply" [] key_byte = 15 -> "NumpadDivide"
      [] OTHER -> "unreachable"

\* Chip8::is_key_pressed: [panic, held]
is_key_pressed(inp, key_byte) ==
    IF key_byte > 15
    THEN [panic |-> TRUE, held |-> FALSE]
    ELSE [panic |-> FALSE, held |-> KeyOfByte(key_byte) \in inp.held]

\* Chip8::probe_keypress: the first key of the list that was just pressed
keycodes == << "Numpad0", "Numpad1", "Numpad2", "Numpad3", "Numpad4", "Numpad5",
               "Numpad6", "Numpad7", "Numpad8", "Numpad9", "NumpadComma",
               "NumpadEnter", "NumpadAdd", "NumpadSubtract", "NumpadMultiply",
               "NumpadDivide" >>

probe_keypress(inp) ==
    IF \E k \in 1..Len(keycodes) : keycodes[k] \in inp.pressed
    THEN keycodes[CHOOSE k \in 1..Len(keycodes) :
                     /\ keycodes[k] \in inp.pressed
                     /\ \A h \in 1..(k - 1) : keycodes[h] \notin inp.pressed]
    ELSE None

\* the table shifted by one: Numpad0 -> 1, ..., NumpadDivide -> 0
ValueOfKeyShifted(key) == (CHOOSE k \in 1..Len(keycodes) : keycodes[k] = key) % 16

\* exec_instruction: the KeyCode -> value table of the key-wait resolution
ValueOfKey(key) ==
    CASE key = "Numpad0" -> 0 [] key = "Numpad1" -> 1 [] key = "Numpad2" -> 2
      [] key = "Numpad3" -> 3 [] key = "Numpad4" -> 4 [] key = "Numpad5" -> 5
      [] key = "Numpad6" -> 6 [] key = "Numpad7" -> 7 [] key = "Numpad8" -> 8
      [] key = "Numpad9" -> 9 [] key = "NumpadComma" -> 10
      [] key = "NumpadEnter" -> 11 [] key = "NumpadAdd" -> 12
      [] key = "NumpadSubtract" -> 13 [] key = "NumpadMultiply" -> 14
      [] key = "NumpadDivide" -> 15

\* Backtrace::refresh
Backtrace_refresh(bt, new_val, text) ==
    LET c == (bt.cur + 1) % BACKTRACE_SIZE
    IN  [trace |-> [bt.trace EXCEPT ![c] = <<new_val, text>>], cur |-> c]

\* disas_instruction(opcode, Some(state)): [panic, text].  The text is kept as the
\* mnemonic; the reads it makes of the state decide whether it panics.
disas_instruction(opcode, m) ==
    LET a == opcode[1]
        b == opcode[2]
        c == opcode[3]
        d == opcode[4]
        Text(t) == [panic |-> FALSE, text |-> t]
        Skip(t) == IF Mem_get(m.ram, m.pc + 2, 4).res = "Ok"
                   THEN Text(t) ELSE [panic |-> TRUE, text |-> t]
    IN  CASE a = 0 ->
               IF <<b, c, d>> = <<0, 14, 0>> THEN Text("CLS")
               ELSE IF <<b, c, d>> = <<0, 14, 14>>
               THEN IF m.sp < CHIP8_STACK_BASE_ADDR THEN Text("INVALID RTS")
                    ELSE IF Mem_get(m.ram, m.sp, 2).res = "Ok" THEN Text("RTS")
                    ELSE [panic |-> TRUE, text |-> "RTS"]
               ELSE Text("INVALID")
          [] a = 1 -> Text("JMP")
          [] a = 2 -> Text("CALL")
          [] a = 3 -> Skip("SKIP.EQ")
          [] a = 4 -> Skip("SKIP.NE")
          [] a = 5 -> IF d = 0 THEN Skip("SKIP.EQ") ELSE Text("INVALID")
          [] a = 6 -> Text("SET")
          [] a = 7 -> Text("ADD")
          [] a = 8 -> IF d \in {0, 1, 2, 3, 4, 5, 6, 7, 14}
                      THEN Text(<<"MOV", "OR", "AND", "XOR", "ADD", "SUB", "SHR", "SUB",
                                  "", "", "", "", "", "", "SHL">>[d + 1])
                      ELSE Text("INVALID")
          [] a = 9 -> IF d = 0 THEN Skip("SKIP.NEQ") ELSE Text("INVALID")
          [] a = 10 -> Text("SETI")
          [] a = 11 -> Text("JR")
          [] a = 12 -> Text("RAND")
          [] a = 13 -> IF Mem_get(m.ram, m.i, d).res = "Ok" THEN Text("DRAW")
                       ELSE Text("DRAW (invalid sprite)")
          [] a = 14 -> IF <<c, d>> = <<9, 14>> THEN Text("PRESS")
                       ELSE IF <<c, d>> = <<10, 1>> THEN Text("NPRESS")
                       ELSE Text("INVALID")
          [] a = 15 ->
               LET kk == c * 16 + d
               IN  CASE kk = 7 -> Text("GETD") [] kk = 10 -> Text("WAITKEY")
                     [] kk = 21 -> Text("SETD") [] kk = 24 -> Text("GETS")
                     [] kk = 30 -> Text("ADDI") [] kk = 41 -> Text("LOADFNT")
                     [] kk = 51 -> Text("DCB") [] kk = 85 -> Text("STORE")
                     [] kk = 101 -> Text("LOAD") [] OTHER -> Text("INVALID")

\* the 8xyN arm of exec_instruction: the operations it accepts
AluValid(op) == op \in {0, 1, 2, 3, 4, 5, 6, 7, 14}

\* ADD that leaves VF alone and SUB that stores the borrow itself
AluWrongFlag(vv, x, y, op) ==
    CASE op = 4 -> [vv EXCEPT ![x] = (vv[x] + vv[y]) % U8]
      [] op = 5 -> [[vv EXCEPT ![x] = (vv[x] - vv[y]) % U8]
                        EXCEPT ![15] = IF vv[x] - vv[y] < 0 THEN 1 ELSE 0]
      [] OTHER -> vv

\* OR, AND and XOR that leave VF alone
AluKeepsFlag(vv, x, y, op) ==
    CASE op = 1 -> [vv EXCEPT ![x] = BitOr(vv[x], vv[y])]
      [] op = 2 -> [vv EXCEPT ![x] = BitAnd(vv[x], vv[y])]
      [] op = 3 -> [vv EXCEPT ![x] = BitXor(vv[x], vv[y])]
      [] OTHER -> vv

\* SHR and SHL that shift Vx in place and ignore Vy
AluShiftsInPlace(vv, x, y, op) ==
    CASE op = 6 -> [[vv EXCEPT ![x] = vv[x] \div 2] EXCEPT ![15] = vv[x] % 2]
      [] op = 14 -> [[vv EXCEPT ![x] = (vv[x] * 2) % U8] EXCEPT ![15] = vv[x] \div 128]
      [] OTHER -> vv

\* the 8xyN arm of exec_instruction: the registers after operation op
Alu(vv, x, y, op) ==
    CASE op = 0 -> [vv EXCEPT ![x] = vv[y]]
      [] op = 1 -> [[vv EXCEPT ![x] = BitOr(vv[x], vv[y])] EXCEPT ![15] = 0]
      [] op = 2 -> [[vv EXCEPT ![x] = BitAnd(vv[x], vv[y])] EXCEPT ![15] = 0]
      [] op = 3 -> [[vv EXCEPT ![x] = BitXor(vv[x], vv[y])] EXCEPT ![15] = 0]
      [] op = 4 -> LET sum == vv[x] + vv[y]
                   IN  [[vv EXCEPT ![x] = sum % U8]
                            EXCEPT ![15] = IF sum >= U8 THEN 1 ELSE 0]
      [] op = 5 -> LET dif == vv[x] - vv[y]
                   IN  [[vv EXCEPT ![x] = dif % U8]
                            EXCEPT ![15] = 1 - (IF dif < 0 THEN 1 ELSE 0)]
      [] op = 6 -> LET v1 == [vv EXCEPT ![x] = vv[y]]
                       carry == BitAnd(v1[x], 1)
                   IN  [[v1 EXCEPT ![x] = v1[x] \div 2] EXCEPT ![15] = carry]
      [] op = 7 -> LET dif == vv[y] - vv[x]
                   IN  [[vv EXCEPT ![x] = dif % U8]
                            EXCEPT ![15] = 1 - (IF dif < 0 THEN 1 ELSE 0)]
      [] op = 14 -> LET v1 == [vv EXCEPT ![x] = vv[y]]
                        carry == BitAnd(v1[x], 128) \div 128
                    IN  [[v1 EXCEPT ![x] = (v1[x] * 2) % U8] EXCEPT ![15] = carry]
      [] OTHER -> vv

\* the machine as one record, and the outcome of a call
Machine == [i |-> i, sp |-> sp, pc |-> pc, v |-> v, delay |-> delay, sound |-> sound,
            ram |-> ram, draw_allowed |-> draw_allowed, waitkey_state |-> waitkey_state,
            pc_backtrace |-> pc_backtrace, frame_elapsed |-> frame_elapsed]

Ret(m, res) == [m |-> m, res |-> res]

\* the element of a singleton
Only(S) == CHOOSE e \in S : TRUE

\* u8::saturating_sub(1)
saturating_sub1(t) == IF t = 0 THEN 0 ELSE t - 1

\* exec_instruction, the key-wait resolution: "return" when the key is still down
ResolveWaitkey(m, inp) ==
    IF m.waitkey_state[1] = None
    THEN Ret(m, "go")
    ELSE IF m.waitkey_state[1] \in inp.released
    THEN Ret([m EXCEPT !.v[m.waitkey_state[2]] = ValueOfKey(m.waitkey_state[1]),
                       !.waitkey_state = <<None, 0>>], "go")
    ELSE Ret(m, "Ok")

\* exec_instruction, the 60Hz tick
Tick(m) ==
    IF m.frame_elapsed
    THEN [m EXCEPT !.frame_elapsed = FALSE, !.draw_allowed = TRUE,
                   !.sound = saturating_sub1(m.sound),
                   !.delay = saturating_sub1(m.delay)]
    ELSE m

\* exec_instruction, the fetch: the four nibbles at pc, or << >> when the read fails
Fetch(m) ==
    LET op == Mem_get(m.ram, m.pc, 2)
    IN  IF op.res = "Ok"
        THEN << op.bytes[1] \div 16, op.bytes[1] % 16, op.bytes[2] \div 16, op.bytes[2] % 16 >>
        ELSE << >>

\* exec_instruction, after the match: the backtrace entry and the PC advance
Retire(m, opcode, oc) ==
    LET dis == disas_instruction(opcode, m)
        m1 == [m EXCEPT !.pc_backtrace = Backtrace_refresh(m.pc_backtrace, m.pc, dis.text)]
    IN  IF dis.panic THEN Ret(m, "Panic")
        ELSE IF m1.pc + 2 >= U16 /\ oc THEN Ret(m1, "Panic")
        ELSE Ret([m1 EXCEPT !.pc = ((m1.pc + 2) % U16) % 4096], "Ok")

\* self.pc -= 2 of the two retry arms
Rewind(m, oc) ==
    IF m.pc - 2 < 0
    THEN IF oc THEN Ret(m, "Panic") ELSE Ret([m EXCEPT !.pc = m.pc - 2 + U16], "go")
    ELSE Ret([m EXCEPT !.pc = m.pc - 2], "go")

\* exec_instruction, arm 0: CLS and RTS
Arm0(m, opcode, oc) ==
    LET bml == <<opcode[2], opcode[3], opcode[4]>>
    IN  IF bml = <<0, 14, 0>>
        THEN LET r == Mem_set(m.ram, CHIP8_DISP_BUF_ADDR,
                              [k \in 1..CHIP8_DISP_BUF_LEN |-> 0], oc)
             IN  Ret([m EXCEPT !.ram = r.ram], IF r.res = "Ok" THEN "go" ELSE r.res)
        ELSE IF bml = <<0, 14, 14>>
        THEN IF m.sp - 2 < 0 /\ oc THEN Ret(m, "Panic")
             ELSE LET m1 == [m EXCEPT !.sp = (m.sp - 2) % U16]
                      addr_bytes == Mem_get(m1.ram, m1.sp, 2)
                  IN  IF m1.sp < CHIP8_STACK_BASE_ADDR THEN Ret(m1, "Error")
                      ELSE IF addr_bytes.res # "Ok" THEN Ret(m1, addr_bytes.res)
                      ELSE Ret([m1 EXCEPT !.pc = from_be_bytes(addr_bytes.bytes[1],
                                                               addr_bytes.bytes[2])], "go")
        ELSE Ret(m, "Error")

\* CALL that pushes the address of the next instruction
Arm2PushNext(m, opcode, oc) ==
    IF m.sp >= CHIP8_DISP_BUF_ADDR
    THEN Ret(m, "InvalidInstructionError")
    ELSE LET r == Mem_set(m.ram, m.sp, to_be_bytes((m.pc + 2) % 4096), oc)
         IN  Ret([m EXCEPT !.ram = r.ram, !.sp = m.sp + 2,
                           !.pc = from_be_bytes(opcode[2], opcode[3] * 16 + opcode[4])],
                 "Ok")

\* exec_instruction, arm 2: CALL
Arm2(m, opcode, oc) ==
    IF m.sp >= CHIP8_DISP_BUF_ADDR
    THEN Ret(m, "InvalidInstructionError")
    ELSE LET r == Mem_set(m.ram, m.sp, to_be_bytes(m.pc), oc)
         IN  Ret([m EXCEPT !.ram = r.ram, !.sp = m.sp + 2,
                           !.pc = from_be_bytes(opcode[2], opcode[3] * 16 + opcode[4])],
                 "Ok")

\* exec_instruction, arm D: DRAW
ArmD(m, opcode, oc) ==
    LET x == opcode[2]
        y == opcode[3]
        n == opcode[4]
    IN  IF m.draw_allowed
        THEN LET m1 == [m EXCEPT !.draw_allowed = FALSE]
                 sprite == Mem_get(m1.ram, m1.i, n)
                 r == load_sprite(m1.ram, sprite.bytes, m1.v[x], m1.v[y], n, oc)
             IN  IF sprite.res # "Ok" THEN Ret(m1, sprite.res)
                 ELSE IF r.res # "Ok" THEN Ret(m1, r.res)
                 ELSE Ret([m1 EXCEPT !.ram = r.ram,
                                     !.v[15] = IF r.flag THEN 1 ELSE 0], "go")
        ELSE \* thread::sleep until the frame is over, then retry
             Rewind([m EXCEPT !.frame_elapsed = TRUE], oc)

\* exec_instruction, arm E: the key skips
ArmE(m, opcode, inp) ==
    LET x == opcode[2]
        k == is_key_pressed(inp, m.v[x])
    IN  IF <<opcode[3], opcode[4]>> = <<9, 14>>
        THEN IF k.panic THEN Ret(m, "Panic")
             ELSE Ret([m EXCEPT !.pc = IF k.held THEN m.pc + 2 ELSE m.pc], "go")
        ELSE IF <<opcode[3], opcode[4]>> = <<10, 1>>
        THEN IF k.panic THEN Ret(m, "Panic")
             ELSE Ret([m EXCEPT !.pc = IF ~k.held THEN m.pc + 2 ELSE m.pc], "go")
        ELSE Ret(m, "InvalidInstructionError")

\* the STORE loop: set_byte(i + k, v[k]) for k in from..n, stopping at the first error
\* a STORE that stops one register short
StoreRegsShort(mem, base, vv, k, n) ==
    [res |-> "Ok",
     ram |-> [a \in 1..RAM_SIZE |->
                IF a - 1 >= base + k /\ a - 1 < base + n THEN vv[a - 1 - base]
                ELSE mem[a]]]

RECURSIVE StoreRegs(_, _, _, _, _)
StoreRegs(mem, base, vv, k, n) ==
    IF k > n THEN [res |-> "Ok", ram |-> mem]
    ELSE LET r == Mem_set_byte(mem, base + k, vv[k])
         IN  IF r.res # "Ok" THEN r ELSE StoreRegs(r.ram, base, vv, k + 1, n)

\* a LOAD that stops one register short
LoadRegsShort(vv, regs, n) == [r \in 0..15 |-> IF r < n THEN regs[r + 1] ELSE vv[r]]

\* self.v[..=n].copy_from_slice(&regs[..=n]) of LOAD
LoadRegs(vv, regs, n) == [r \in 0..15 |-> IF r <= n THEN regs[r + 1] ELSE vv[r]]

\* an ADDI that keeps the 13th bit
AddIUnmasked(index, vx) == index + vx

\* ADDI: (self.i + self.v[x] as u16) & 0b0000111111111111
AddI(index, vx) == (index + vx) % 4096

\* the digits in the order units, tens, hundreds
DigitsReversed(byte) == <<byte % 10, (byte % 100) \div 10, byte \div 100>>

\* DCB: byte / 100, (byte % 100) / 10, byte % 10
Digits(byte) == <<byte \div 100, (byte % 100) \div 10, byte % 10>>

\* exec_instruction, arm F
ArmF(m, opcode, inp, oc) ==
    LET x == opcode[2]
        kk == opcode[3] * 16 + opcode[4]
    IN  CASE kk = 7 -> Ret([m EXCEPT !.v[x] = m.delay], "go")
          [] kk = 10 ->
               LET key == probe_keypress(inp)
               IN  IF key # None THEN Ret([m EXCEPT !.waitkey_state = <<key, x>>], "go")
                   ELSE Rewind(m, oc)
          [] kk = 21 -> Ret([m EXCEPT !.delay = m.v[x]], "go")
          [] kk = 24 -> Ret([m EXCEPT !.sound = m.v[x]], "go")
          [] kk = 30 -> Ret([m EXCEPT !.i = AddI(m.i, m.v[x])], "go")
          [] kk = 41 -> Ret([m EXCEPT !.i = CHIP8_FONT_START
                                            + CHIP8_FONT_HEIGHT * (m.v[x] % 16)], "go")
          [] kk = 51 ->
               LET byte == m.v[x]
                   r1 == Mem_set_byte(m.ram, m.i, Digits(byte)[1])
                   r2 == Mem_set_byte(r1.ram, m.i + 1, Digits(byte)[2])
                   r3 == Mem_set_byte(r2.ram, m.i + 2, Digits(byte)[3])
               IN  IF r1.res # "Ok" THEN Ret(m, r1.res)
                   ELSE IF r2.res # "Ok" THEN Ret([m EXCEPT !.ram = r1.ram], r2.res)
                   ELSE IF r3.res # "Ok" THEN Ret([m EXCEPT !.ram = r2.ram], r3.res)
                   ELSE Ret([m EXCEPT !.ram = r3.ram], "go")
          [] kk = 85 ->
               IF m.i + x > 4095 THEN Ret(m, "InvalidAccessError")
               ELSE LET r == StoreRegs(m.ram, m.i, m.v, 0, x)
                    IN  IF r.res # "Ok" THEN Ret([m EXCEPT !.ram = r.ram], r.res)
                        ELSE Ret([m EXCEPT !.ram = r.ram, !.i = (m.i + x + 1) % 4096], "go")
          [] kk = 101 ->
               IF m.i + x > 4095 THEN Ret(m, "InvalidAccessError")
               ELSE LET regs == Mem_get(m.ram, m.i, x + 1)
                    IN  IF regs.res # "Ok" THEN Ret(m, regs.res)
                        ELSE Ret([m EXCEPT !.v = LoadRegs(m.v, regs.bytes, x),
                                           !.i = (m.i + x + 1) % 4096], "go")
          [] OTHER -> Ret(m, "InvalidInstructionError")

\* exec_instruction, the match on the opcode: "go" when the arm falls through to
\* the end of the function, else what the arm returns
Dispatch(m, opcode, inp, rnd, oc) ==
    LET a == opcode[1]
        x == opcode[2]
        y == opcode[3]
        l == opcode[4]
        kk == y * 16 + l
        nnn == from_be_bytes(x, kk)
        SkipIf(cond) == Ret([m EXCEPT !.pc = IF cond THEN (m.pc + 2) % 4096 ELSE m.pc], "go")
    IN  CASE a = 0 -> Arm0(m, opcode, oc)
          [] a = 1 -> Ret([m EXCEPT !.pc = nnn], "Ok")
          [] a = 2 -> Arm2(m, opcode, oc)
          [] a = 3 -> SkipIf(m.v[x] = kk)
          [] a = 4 -> SkipIf(m.v[x] # kk)
          [] a = 5 -> IF l = 0 THEN SkipIf(m.v[x] = m.v[y])
                      ELSE Ret(m, "InvalidInstructionError")
          [] a = 6 -> Ret([m EXCEPT !.v[x] = kk], "go")
          [] a = 7 -> Ret([m EXCEPT !.v[x] = (m.v[x] + kk) % U8], "go")
          [] a = 8 -> IF AluValid(l) THEN Ret([m EXCEPT !.v = Alu(m.v, x, y, l)], "go")
                      ELSE Ret(m, "InvalidInstructionError")
          [] a = 9 -> IF l = 0 THEN SkipIf(m.v[x] # m.v[y])
                      ELSE Ret(m, "InvalidInstructionError")
          [] a = 10 -> Ret([m EXCEPT !.i = nnn], "go")
          [] a = 11 -> Ret([m EXCEPT !.pc = (m.v[0] + nnn) % 4096], "Ok")
          [] a = 12 -> Ret([m EXCEPT !.v[x] = BitAnd(rnd, kk)], "go")
          [] a = 13 -> ArmD(m, opcode, oc)
          [] a = 14 -> ArmE(m, opcode, inp)
          [] a = 15 -> ArmF(m, opcode, inp, oc)

\* System::exec_instruction: the machine after the call and what the call
\* returned ("Ok", an error kind, or "Panic").  The three stages are bound with
\* \in, so that each is computed once.
exec_instruction(m, inp, rnd, oc) ==
    Only({ IF w.res # "go" THEN w
           ELSE Only({ IF Fetch(m1) = << >> THEN Ret(m1, "Panic")
                       ELSE Only({ IF r.res # "go" THEN r
                                   ELSE Retire(r.m, Fetch(m1), oc) :
                                   r \in {Dispatch(m1, Fetch(m1), inp, rnd, oc)} }) :
                       m1 \in {Tick(w.m)} }) :
           w \in {ResolveWaitkey(m, inp)} })

\* CHIP8_FONT
CHIP8_FONT ==
    << 240, 144, 144, 144, 240,   32,  96,  32,  32, 112,
       240,  16, 240, 128, 240,  240,  16, 240,  16, 240,
       144, 144, 240,  16,  16,  240, 128, 240,  16, 240,
       240, 128, 240, 144, 240,  240,  16,  32,  64,  64,
       240, 144, 240, 144, 240,  240, 144, 240,  16, 240,
       240, 144, 240, 144, 144,  224, 144, 224, 144, 224,
       240, 128, 128, 128, 240,  224, 144, 144, 144, 224,
       240, 128, 240, 128, 240,  240, 128, 240, 128, 128 >>

\* load_program that also refuses a program of the largest size
load_program_Strict(mem, program_data, oc) ==
    IF Len(program_data) >= CHIP8_MAX_PROG_SIZE
    THEN [res |-> "ProgramLoadingError", ram |-> mem]
    ELSE LET f == Mem_set(mem, CHIP8_FONT_START, CHIP8_FONT, oc)
         IN  IF f.res # "Ok" THEN f
             ELSE Mem_set(f.ram, CHIP8_PC_START, program_data, oc)

\* load_program that leaves the font table out
load_program_NoFont(mem, program_data, oc) ==
    IF Len(program_data) > CHIP8_MAX_PROG_SIZE
    THEN [res |-> "ProgramLoadingError", ram |-> mem]
    ELSE Mem_set(mem, CHIP8_PC_START, program_data, oc)

\* System::load_program: [res, ram]
load_program(mem, program_data, oc) ==
    IF Len(program_data) > CHIP8_MAX_PROG_SIZE
    THEN [res |-> "ProgramLoadingError", ram |-> mem]
    ELSE LET f == Mem_set(mem, CHIP8_FONT_START, CHIP8_FONT, oc)
         IN  IF f.res # "Ok" THEN f
             ELSE Mem_set(f.ram, CHIP8_PC_START, program_data, oc)

(***************************************************************************)
(* The programs the machine is run on                                      *)
(***************************************************************************)
Ins(a, b, c, d) == << a * 16 + b, c * 16 + d >>
SetV(x, val) == Ins(6, x, val \div 16, val % 16)

ByteSamples == {0, 1, 2, 127, 128, 255}
RegPairs == { <<0, 1>>, <<1, 0>>, <<1, 1>>, <<0, 15>>, <<15, 0>> }
AluOps == {4, 5}

\* Vx := a; Vy := b; 8xyN
AluProgs == { SetV(r[1], a) \o SetV(r[2], b) \o Ins(8, r[1], r[2], op) :
                r \in RegPairs, a \in ByteSamples, b \in ByteSamples, op \in AluOps }

\* Vx := a; Vy := b; 8xy1, 8xy2, 8xy3, 8xy6 or 8xyE: the samples have every pair of
\* bits, and bit 0 and bit 7 both set and clear
BitSamples == {3, 5, 128, 129}
BitOps == {1, 2, 3, 6, 14}
BitProgs == { SetV(r[1], a) \o SetV(r[2], b) \o Ins(8, r[1], r[2], op) :
                r \in RegPairs, a \in BitSamples, b \in BitSamples, op \in BitOps }

\* Vx := random & 0xC3; Vy := random & 0xC3; 8xyN
RandProgs == { Ins(12, 0, 12, 3) \o Ins(12, 1, 12, 3) \o Ins(8, 0, 1, op) : op \in AluOps }

CallProgs ==
    { \* 200: CALL 204; 202: 0000; 204: CALL 208; 206: RTS; 208: RTS
      Ins(2,2,0,4) \o Ins(0,0,0,0) \o Ins(2,2,0,8) \o Ins(0,0,14,14) \o Ins(0,0,14,14),
      \* 200: CALL 200
      Ins(2,2,0,0),
      \* 200: RTS
      Ins(0,0,14,14),
      \* FFC: RTS; FFE: CALL FFC, written by STORE, then JMP FFE
      SetV(0, 0) \o SetV(1, 238) \o SetV(2, 47) \o SetV(3, 252)
        \o Ins(10,15,15,12) \o Ins(15,3,5,5) \o Ins(1,15,15,14),
      \* 200: CALL 202; then the pushed address is overwritten by STORE; RTS
      Ins(2,2,0,2) \o SetV(0, 3) \o SetV(1, 0) \o Ins(10,14,10,0) \o Ins(15,1,5,5)
        \o Ins(0,0,14,14) }

DrawProgs ==
    { \* V0 := 64; V1 := 32; I := 20C; DRAW V0,V1,1 twice; 0000; sprite 80
      SetV(0, 64) \o SetV(1, 32) \o Ins(10,2,0,12) \o Ins(13,0,1,1) \o Ins(13,0,1,1)
        \o Ins(0,0,0,0) \o <<128>>,
      \* I := 206; DRAW V0,V1,1 twice at (0, 0); sprite FF
      Ins(10,2,0,6) \o Ins(13,0,1,1) \o Ins(13,0,1,1) \o <<255>>,
      \* a DRAW written to address 0 by STORE: V2 := 64; V3 := 32; DRAW V2,V3,1; JMP 0
      SetV(0, 210) \o SetV(1, 49) \o SetV(2, 64) \o SetV(3, 32) \o Ins(10,0,0,0)
        \o Ins(15,1,5,5) \o Ins(13,2,3,1) \o Ins(1,0,0,0),
      \* I := FFF; DRAW V0,V1,2: the sprite read crosses the end of memory
      Ins(10,15,15,15) \o Ins(13,0,1,2),
      \* V0 := 64; V1 := 32; I := 20A; DRAW V0,V1,1; DRAW V2,V3,1 at (0, 0); sprite 80
      SetV(0, 64) \o SetV(1, 32) \o Ins(10,2,0,10) \o Ins(13,0,1,1) \o Ins(13,2,3,1)
        \o <<128>> }

KeyProgs ==
    { \* 200: WAITKEY V1; 202: V2 := 3; 204: 0000
      Ins(15,1,0,10) \o SetV(2, 3) \o Ins(0,0,0,0),
      \* V0 := 2; delay := V0; sound := V0; WAITKEY V1; V3 := delay; 0000
      SetV(0, 2) \o Ins(15,0,1,5) \o Ins(15,0,1,8) \o Ins(15,1,0,10) \o Ins(15,3,0,7)
        \o Ins(0,0,0,0),
      \* a WAITKEY V1 written to address 0 by STORE, then JMP 0
      SetV(0, 241) \o SetV(1, 10) \o Ins(10,0,0,0) \o Ins(15,1,5,5) \o Ins(1,0,0,0),
      \* a WAITKEY V1 written to address 1 by STORE, then JMP 1
      SetV(0, 0) \o SetV(1, 241) \o SetV(2, 10) \o Ins(10,0,0,0) \o Ins(15,2,5,5)
        \o Ins(1,0,0,1) }

\* one instruction word that matches no pattern of the match
InvalidProgs ==
    { Ins(0,1,2,3), Ins(5,0,1,1), Ins(9,0,1,1), Ins(8,0,1,8), Ins(8,0,1,15),
      Ins(14,0,0,0), Ins(15,0,15,15) }

\* accesses that cross the end of the address space
RangeProgs ==
    { \* JMP FFF: the fetch at FFF
      Ins(1,15,15,15),
      \* V0 := 123; I := FFE; DCB V0
      SetV(0, 123) \o Ins(10,15,15,14) \o Ins(15,0,3,3),
      \* I := FFF; STORE V0..V1
      Ins(10,15,15,15) \o Ins(15,1,5,5),
      \* I := FFF; LOAD V0..V1
      Ins(10,15,15,15) \o Ins(15,1,6,5),
      \* CALL 202; the pushed address is overwritten with FFFF by STORE; RTS
      Ins(2,2,0,2) \o SetV(0, 255) \o SetV(1, 255) \o Ins(10,14,10,0) \o Ins(15,1,5,5)
        \o Ins(0,0,14,14) }

\* V0.. := some values; I := a; STORE V0..Vx; the registers are changed; I := a;
\* LOAD V0..Vx
StoreProgs ==
    { \* x = 1 at 300, V2 stays out of it
      SetV(0, 17) \o SetV(1, 34) \o SetV(2, 51) \o Ins(10,3,0,0) \o Ins(15,1,5,5)
        \o SetV(0, 68) \o SetV(1, 85) \o Ins(10,3,0,0) \o Ins(15,1,6,5),
      \* x = 0 at FFF, the last byte of memory
      SetV(0, 17) \o Ins(10,15,15,15) \o Ins(15,0,5,5)
        \o SetV(0, 68) \o Ins(10,15,15,15) \o Ins(15,0,6,5),
      \* x = 1 at FFE
      SetV(0, 17) \o SetV(1, 34) \o Ins(10,15,15,14) \o Ins(15,1,5,5)
        \o SetV(1, 85) \o Ins(10,15,15,14) \o Ins(15,1,6,5),
      \* x = F at 300
      SetV(0, 1) \o SetV(7, 7) \o SetV(15, 15) \o Ins(10,3,0,0) \o Ins(15,15,5,5)
        \o SetV(0, 9) \o SetV(15, 0) \o Ins(10,3,0,0) \o Ins(15,15,6,5) }

\* Vx := a; I := 300 or FFD; DCB Vx
BcdSamples == {0, 7, 10, 99, 100, 123, 209, 255}
BcdProgs == { SetV(x, a) \o Ins(10, n[1], n[2], n[3]) \o Ins(15, x, 3, 3) :
                x \in {0, 15}, a \in BcdSamples, n \in {<<3, 0, 0>>, <<15, 15, 13>>} }

\* V0 := a; Ex9E or ExA1 on V0; V1 := 1 (skipped or not); V2 := 2
SkipKeyProgs == { SetV(0, a) \o Ins(14, 0, op[1], op[2]) \o SetV(1, 1) \o SetV(2, 2) :
                    a \in {1, 10, 16, 255}, op \in {<<9, 14>>, <<10, 1>>} }

\* the skips and the relative jump
FlowProgs ==
    { \* V0 := 1; SKIP.EQ V0, 1 (taken); V1 := 1; V2 := 2
      SetV(0, 1) \o Ins(3,0,0,1) \o SetV(1, 1) \o SetV(2, 2),
      \* SKIP.NE V0, 0 (not taken); V1 := 1; SKIP.EQ V0, V1 (not taken);
      \* SKIP.NE V0, V1 (taken); V2 := 2; V3 := 3
      Ins(4,0,0,0) \o SetV(1, 1) \o Ins(5,0,1,0) \o Ins(9,0,1,0) \o SetV(2, 2)
        \o SetV(3, 3),
      \* V0 := 2; JR 204 (to 206); 204: 0000; 206: V1 := 1
      SetV(0, 2) \o Ins(11,2,0,4) \o Ins(0,0,0,0) \o SetV(1, 1),
      \* SKIP.EQ V0, 0 written to FFC by STORE (V0 = 48: not taken), then JMP FFC
      SetV(0, 48) \o SetV(1, 0) \o Ins(10,15,15,12) \o Ins(15,1,5,5) \o Ins(1,15,15,12),
      \* SKIP.EQ V0, 48 written to FFA by STORE (V0 = 48: taken), then JMP FFA
      SetV(0, 48) \o SetV(1, 48) \o Ins(10,15,15,10) \o Ins(15,1,5,5) \o Ins(1,15,15,10),
      \* SKIP.EQ V0, 0 written to FFA by STORE (V0 = 48: not taken), then JMP FFA
      SetV(0, 48) \o SetV(1, 0) \o Ins(10,15,15,10) \o Ins(15,1,5,5) \o Ins(1,15,15,10) }

\* the instructions that set I
IndexProgs ==
    { \* I := FFF; V0 := 255; ADDI V0; V1 := 1
      Ins(10,15,15,15) \o SetV(0, 255) \o Ins(15,0,1,14) \o SetV(1, 1),
      \* V0 := 255; LOADFNT V0; ADDI V0
      SetV(0, 255) \o Ins(15,0,2,9) \o Ins(15,0,1,14) }

\* programs of the largest length load_program accepts, and one byte more
BigProgs == { [k \in 1..n |-> k % U8] : n \in {CHIP8_MAX_PROG_SIZE, CHIP8_MAX_PROG_SIZE + 1} }

Programs == AluProgs \cup RandProgs \cup CallProgs \cup DrawProgs \cup KeyProgs
                \cup InvalidProgs \cup RangeProgs \cup BigProgs \cup BitProgs
                \cup StoreProgs \cup BcdProgs \cup SkipKeyProgs
                \cup FlowProgs \cup IndexProgs

SampleKeys == {"Numpad1", "NumpadComma", "NumpadDecimal"}
InputSnapshots ==
    {NoInput}
    \cup { [pressed |-> {k}, held |-> {k}, released |-> {}] : k \in SampleKeys }
    \cup { [pressed |-> {}, held |-> {k}, released |-> {}] : k \in SampleKeys }
    \cup { [pressed |-> {}, held |-> {}, released |-> {k}] : k \in SampleKeys }

(***************************************************************************)
(* The driver: load the program, then call exec_instruction until it fails *)
(***************************************************************************)
MaxSteps == 50

\* the driver gives up after this many calls that stalled or retried
MaxStalls == 3

\* the opcode the next call will dispatch on, << >> when the fetch fails
NextOpcode == Fetch(Tick(Machine))

\* the next call reads the input / the random generator
ReadsInput ==
    \/ waitkey_state[1] # None
    \/ /\ NextOpcode # << >>
       /\ \/ NextOpcode[1] = 14
          \/ NextOpcode[1] = 15 /\ <<NextOpcode[3], NextOpcode[4]>> = <<0, 10>>
ReadsRandom == NextOpcode # << >> /\ NextOpcode[1] = 12

LoadProgram ==
    /\ phase = "init"
    /\ \E program_data \in Programs :
         LET r == load_program(ram, program_data, overflow_checks)
         IN  /\ ram' = r.ram
             /\ result' = r.res
             /\ last' = [NoCall EXCEPT !.op = "load_program", !.len = Len(program_data),
                                       !.bytes = program_data, !.res = r.res]
    /\ phase' = "run"
    /\ UNCHANGED <<cpu_vars, overflow_checks, prev, ncalls, nstalls, app>>

\* the wall clock passes the end of the 60Hz frame
TimePasses ==
    /\ phase = "run"
    /\ ~frame_elapsed
    /\ frame_elapsed' = TRUE
    /\ UNCHANGED <<i, sp, pc, v, delay, sound, ram, draw_allowed, waitkey_state,
                   pc_backtrace, overflow_checks, phase, result, last, prev, ncalls, nstalls,
                   app,
                   frames, last_store>>

\* a driver that calls again after an error
DriverPhaseRetry(res) == IF res = "Panic" THEN "crashed" ELSE "run"

\* the match on the call's result in the driver loop: Ok goes round the loop, Err
\* returns from the driver, a panic unwinds the thread
DriverPhase(res) ==
    IF res = "Ok" THEN "run" ELSE IF res = "Panic" THEN "crashed" ELSE "halted"

Exec ==
    /\ phase = "run"
    /\ ncalls < MaxSteps
    /\ nstalls < MaxStalls
    /\ \E inp \in (IF ReadsInput THEN InputSnapshots ELSE {NoInput}),
          rnd \in (IF ReadsRandom THEN 0..255 ELSE {0}) :
       \E r \in {exec_instruction(Machine, inp, rnd, overflow_checks)} :
         LET stalled == ResolveWaitkey(Machine, inp).res # "go"
             opcode == IF stalled THEN << >> ELSE Fetch(Tick(ResolveWaitkey(Machine, inp).m))
             is_call == opcode # << >> /\ opcode[1] = 2
             is_rts == opcode = <<0, 0, 14, 14>>
             is_store == /\ opcode # << >> /\ opcode[1] = 15
                         /\ <<opcode[3], opcode[4]>> = <<5, 5>>
             \* a DRAW behind the closed gate, or a WAITKEY that found no key
             retried == /\ opcode # << >>
                        /\ \/ opcode[1] = 13
                           \/ opcode[1] = 15 /\ <<opcode[3], opcode[4]>> = <<0, 10>>
                        /\ r.res = "Ok" /\ r.m.pc = pc
         IN  /\ i' = r.m.i
             /\ sp' = r.m.sp
             /\ pc' = r.m.pc
             /\ v' = r.m.v
             /\ delay' = r.m.delay
             /\ sound' = r.m.sound
             /\ ram' = r.m.ram
             /\ draw_allowed' = r.m.draw_allowed
             /\ waitkey_state' = r.m.waitkey_state
             /\ pc_backtrace' = r.m.pc_backtrace
             /\ frame_elapsed' = r.m.frame_elapsed
             /\ result' = r.res
             /\ phase' = DriverPhase(r.res)
             /\ last' = [NoCall EXCEPT !.op = "exec", !.addr = pc, !.bytes = opcode,
                                       !.res = r.res, !.inp = inp]
             /\ frames' = IF is_call /\ r.res = "Ok"
                          THEN Append(frames, [p |-> pc, sp |-> sp,
                                               top |-> Mem_get(r.m.ram, sp, 2).bytes])
                          ELSE IF is_rts /\ r.res = "Ok" /\ frames # << >>
                          THEN SubSeq(frames, 1, Len(frames) - 1)
                          ELSE frames
             /\ last_store' = IF is_store /\ r.res = "Ok"
                              THEN [i |-> i, x |-> opcode[2], v |-> v]
                              ELSE IF r.m.ram # ram THEN NoStore ELSE last_store
             /\ nstalls' = IF stalled \/ retried THEN nstalls + 1 ELSE nstalls
    /\ ncalls' = ncalls + 1
    /\ UNCHANGED <<overflow_checks, prev, app>>

Init == Start("init")

Next == LoadProgram \/ TimePasses \/ Exec

Spec == Init /\ [][Next]_vars

(***************************************************************************)
(* Specification of the bare address space                                 *)
(***************************************************************************)
InitMem == Start("mem")

NextMem == CallGet \/ CallSet \/ CallSetByte \/ CallLoadSprite

SpecMem == InitMem /\ [][NextMem]_vars

(***************************************************************************)
(* Specification of main.rs: world_thread against the event loop           *)
(***************************************************************************)
MaxUpdates == 4
MaxRedraws == 3

\* everything but app
rest_vars == <<i, sp, pc, v, delay, sound, ram, draw_allowed, waitkey_state,
               pc_backtrace, frame_elapsed, overflow_checks, phase, result,
               last, prev, ncalls, nstalls, frames, last_store>>

\* world_thread: world_shared.write().unwrap() returns the write guard
WorldWrite ==
    /\ phase = "app" /\ app.wt = "loop" /\ app.updates < MaxUpdates
    /\ CanWrite(app)
    /\ app' = [app EXCEPT !.writer = TRUE, !.wt = "update", !.upd = 0]
    /\ UNCHANGED rest_vars

\* world_thread: one statement of World::update, under the write guard
WorldUpdate ==
    /\ phase = "app" /\ app.wt = "update" /\ app.upd < 4
    /\ app' = [app EXCEPT !.world = World_update(app.world, app.upd), !.upd = app.upd + 1]
    /\ UNCHANGED rest_vars

\* world_thread: update has returned and the write guard is dropped
WorldUnlock ==
    /\ phase = "app" /\ app.wt = "update" /\ app.upd = 4
    /\ app' = [app EXCEPT !.writer = FALSE, !.wt = "inspect", !.committed = app.world,
                          !.updates = app.updates + 1]
    /\ UNCHANGED rest_vars

\* world_thread: world_shared.read() returns a read guard
WorldRead ==
    /\ phase = "app" /\ app.wt = "inspect"
    /\ CanRead(app)
    /\ app' = [app EXCEPT !.readers = app.readers + 1, !.wt = "drop"]
    /\ UNCHANGED rest_vars

\* world_thread: drop of the inspected read guard
WorldDrop ==
    /\ phase = "app" /\ app.wt = "drop"
    /\ app' = [app EXCEPT !.readers = app.readers - 1, !.wt = "loop"]
    /\ UNCHANGED rest_vars

\* event loop, RedrawRequested: world.read().unwrap() returns a read guard
Redraw ==
    /\ phase = "app" /\ app.mt = "events" /\ app.redraws < MaxRedraws
    /\ CanRead(app)
    /\ app' = [app EXCEPT !.readers = app.readers + 1, !.mt = "draw_x"]
    /\ UNCHANGED rest_vars

\* event loop: World::draw reads box_x, then box_y
DrawX ==
    /\ phase = "app" /\ app.mt = "draw_x"
    /\ app' = [app EXCEPT !.seen = <<app.world.box_x, app.seen[2]>>, !.mt = "draw_y"]
    /\ UNCHANGED rest_vars

DrawY ==
    /\ phase = "app" /\ app.mt = "draw_y"
    /\ app' = [app EXCEPT !.seen = <<app.seen[1], app.world.box_y>>, !.mt = "drawn"]
    /\ UNCHANGED rest_vars

\* event loop: draw has returned and the read guard is dropped
DrawDone ==
    /\ phase = "app" /\ app.mt = "drawn"
    /\ app' = [app EXCEPT !.readers = app.readers - 1, !.mt = "events",
                          !.redraws = app.redraws + 1]
    /\ UNCHANGED rest_vars

InitApp == Start("app")

NextApp == WorldWrite \/ WorldUpdate \/ WorldUnlock \/ WorldRead \/ WorldDrop
              \/ Redraw \/ DrawX \/ DrawY \/ DrawDone

SpecApp == InitApp /\ [][NextApp]_vars

(***************************************************************************)
(* Claims about the address space, checked under SpecMem                   *)
(***************************************************************************)
ZeroDisplay == [k \in 1..CHIP8_DISP_BUF_LEN |-> 0]

\* some pixel is lit in display `after` that was dark in display `before`
Lit(before, after) ==
    \E k \in 1..CHIP8_DISP_BUF_LEN, b \in 0..7 : Bit(before[k], b) = 0 /\ Bit(after[k], b) = 1

\* some pixel is dark in display `after` that was lit in display `before`
Erased(before, after) == Lit(after, before)

\* C1: get(a, l) and set(a, bytes of length l) fail with InvalidAccessError when
\* a + l > 4096, a failing set changes no byte, and both succeed when a + l <= 4096
\* (l = 0 included).
C1_RangeChecked ==
    last.op \in {"get", "set"} =>
        /\ last.addr + last.len > RAM_SIZE =>
               last.res = "InvalidAccessError" /\ ~last.mutated
        /\ last.addr + last.len <= RAM_SIZE => last.res = "Ok"

\* C2: the 1-byte sprite 0xFF drawn at (0, 0) on an all-zero display sets the byte
\* at 0xF00 to 0xFF, leaves every other display byte zero and reports no collision.
C2_DrawFFAtOrigin ==
    (/\ last.op = "load_sprite"
     /\ last.bytes = <<255>> /\ last.x = 0 /\ last.y = 0
     /\ last.pre_fb = ZeroDisplay)
    => /\ last.res = "Ok"
       /\ DisplayOf(ram) = [k \in 1..CHIP8_DISP_BUF_LEN |-> IF k = 1 THEN 255 ELSE 0]
       /\ ~last.flag

\* two calls of load_sprite in a row, with the same sprite at the same place, that
\* both returned
DrewTwice ==
    /\ prev.op = "load_sprite" /\ last.op = "load_sprite"
    /\ prev.bytes = last.bytes /\ prev.x = last.x /\ prev.y = last.y
    /\ prev.res = "Ok" /\ last.res = "Ok"

C4_CollisionIffErased ==
    (last.op = "load_sprite" /\ last.res = "Ok")
    => (last.flag <=> Erased(last.pre_fb, DisplayOf(ram)))

\* C5: load_sprite returns for every Vx, Vy, and drawing at (Vx, Vy) changes the
\* display as drawing at (Vx mod 64, Vy mod 32) does.
C5_AnchorWrapped ==
    last.op = "load_sprite" =>
        /\ last.res = "Ok"
        /\ DisplayOf(ram) =
             DisplayOf(load_sprite(Mem_set(Mem_new, CHIP8_DISP_BUF_ADDR, last.pre_fb,
                                           overflow_checks).ram,
                                   last.bytes, last.x % CHIP8_DISP_WIDTH,
                                   last.y % CHIP8_DISP_HEIGHT, last.len,
                                   overflow_checks).ram)

\* the display after a sprite is XORed into display `fb` at column x, row y: row r
\* of the sprite goes to row y + r, shifted right by x mod 8 into column-byte
\* x / 8, and its low bits go into column-byte x / 8 + 1 when the row has one
Blitted(fb, sprite, x, y) ==
    [k \in 1..CHIP8_DISP_BUF_LEN |->
        LET col == (k - 1) % (CHIP8_DISP_WIDTH \div 8)
            r == ((k - 1) \div (CHIP8_DISP_WIDTH \div 8)) - y
        IN  IF r < 0 \/ r >= Len(sprite) THEN fb[k]
            ELSE IF col = x \div 8 THEN BitXor(fb[k], checked_shr(sprite[r + 1], x % 8))
            ELSE IF col = (x \div 8) + 1
                 THEN BitXor(fb[k], checked_shl(sprite[r + 1], 8 - (x % 8)))
            ELSE fb[k]]

\* C24: load_sprite XORs row r of the sprite into display row y + r: shifted right
\* by x mod 8 into column-byte x / 8 and, when x / 8 < 7, shifted left by
\* 8 - x mod 8 (truncated to 8 bits) into column-byte x / 8 + 1; when x / 8 = 7
\* only column-byte 7 is written. x and y are the wrapped anchor.
C24_SpritePlacement ==
    last.op = "load_sprite" =>
        /\ last.res = "Ok"
        /\ DisplayOf(ram) = Blitted(last.pre_fb, last.bytes, last.x % CHIP8_DISP_WIDTH,
                                    last.y % CHIP8_DISP_HEIGHT)

\* this step is a call of load_sprite on the bare memory
SpriteCall == phase = "mem" /\ ncalls' = ncalls + 1 /\ last'.op = "load_sprite"

\* C25: load_sprite returns for every n, and the only bytes it changes are display
\* bytes in rows y .. min(y + n, 32) - 1 and column-bytes x / 8 and x / 8 + 1,
\* with x and y the wrapped anchor: nothing outside the display buffer changes
\* and no row wraps from the bottom to the top.
C25_SpriteFrameStep ==
    SpriteCall =>
        /\ last'.res = "Ok"
        /\ \A a \in 0..(RAM_SIZE - 1) :
             ram'[a + 1] # ram[a + 1] =>
                 LET k == a - CHIP8_DISP_BUF_ADDR
                     x == last'.x % CHIP8_DISP_WIDTH
                     y == last'.y % CHIP8_DISP_HEIGHT
                 IN  /\ a >= CHIP8_DISP_BUF_ADDR
                     /\ k \div (CHIP8_DISP_WIDTH \div 8) >= y
                     /\ k \div (CHIP8_DISP_WIDTH \div 8) < y + last'.len
                     /\ k % (CHIP8_DISP_WIDTH \div 8) \in {x \div 8, (x \div 8) + 1}

C25_SpriteFrame == [][C25_SpriteFrameStep]_vars

(***************************************************************************)
(* Claims about the machine, checked under Spec                            *)
(***************************************************************************)
\* this step is a call of exec_instruction that dispatches on an opcode
Executing == phase = "run" /\ ncalls' = ncalls + 1 /\ waitkey_state[1] = None
                /\ NextOpcode # << >>

\* C6 as stated, for every register index x: 8xy4 sets Vx to (Vx + Vy) mod 256 and
\* VF to the carry; 8xy5 sets Vx to (Vx - Vy) mod 256 and VF to 1 when Vx >= Vy,
\* else 0.
C6_AddSubAnyRegStep ==
    (Executing /\ NextOpcode[1] = 8 /\ NextOpcode[4] \in {4, 5}) =>
        LET x == NextOpcode[2]
            y == NextOpcode[3]
        IN  /\ result' = "Ok"
            /\ NextOpcode[4] = 4 =>
                 /\ v'[15] = (IF v[x] + v[y] > 255 THEN 1 ELSE 0)
                 /\ v'[x] = (v[x] + v[y]) % 256
            /\ NextOpcode[4] = 5 =>
                 /\ v'[15] = (IF v[x] >= v[y] THEN 1 ELSE 0)
                 /\ v'[x] = (v[x] - v[y]) % 256

C6_AddSubAnyReg == [][C6_AddSubAnyRegStep]_vars

\* C6, amended: 8xy4 sets VF to the carry of Vx + Vy and 8xy5 sets VF to 1 when
\* Vx >= Vy, else 0; when x is not F they set Vx to (Vx + Vy) mod 256 and to
\* (Vx - Vy) mod 256.  When x is F the register holds the flag, which is written
\* last.
C6_AddSubStep ==
    (Executing /\ NextOpcode[1] = 8 /\ NextOpcode[4] \in {4, 5}) =>
        LET x == NextOpcode[2]
            y == NextOpcode[3]
        IN  /\ result' = "Ok"
            /\ NextOpcode[4] = 4 =>
                 /\ v'[15] = (IF v[x] + v[y] > 255 THEN 1 ELSE 0)
                 /\ x # 15 => v'[x] = (v[x] + v[y]) % 256
            /\ NextOpcode[4] = 5 =>
                 /\ v'[15] = (IF v[x] >= v[y] THEN 1 ELSE 0)
                 /\ x # 15 => v'[x] = (v[x] - v[y]) % 256

C6_AddSub == [][C6_AddSubStep]_vars

\* Vx = 0xFF, Vy = 0x01 under 8xy4 gave Vx = 0x00, VF = 1
C6_Witness ==
    /\ last.op = "exec" /\ last.bytes = <<8, 0, 1, 4>> /\ result = "Ok"
    /\ v[0] = 0 /\ v[1] = 1 /\ v[15] = 1

\* C7: the RETURN that matches a CALL executed at P leaves PC = (P + 2) mod 4096
\* and SP as it was before the CALL, when the two stack bytes the CALL wrote are
\* still there.
C7_CallReturnStep ==
    (Executing /\ NextOpcode = <<0, 0, 14, 14>> /\ result' = "Ok" /\ frames # << >>) =>
        LET f == frames[Len(frames)]
        IN  Mem_get(ram, f.sp, 2).bytes = f.top =>
                pc' = (f.p + 2) % 4096 /\ sp' = f.sp

C7_CallReturn == [][C7_CallReturnStep]_vars

\* the RETURN to the CALL at 0xFFE has left PC = 0
C7_Witness ==
    /\ last.op = "exec" /\ last.bytes = <<0, 0, 14, 14>> /\ result = "Ok"
    /\ pc = 0 /\ sp = CHIP8_STACK_BASE_ADDR /\ frames = << >>

\* the stack capacity of C8
StackFrames == (CHIP8_DISP_BUF_ADDR - CHIP8_STACK_BASE_ADDR) \div 2

\* C8: nested CALLs succeed up to 48 frames, and the 49th fails with a
\* StackOverflow error, a kind of its own, distinct from InvalidInstruction.
C8_StackOverflowKind ==
    (last.op = "exec" /\ last.bytes # << >> /\ last.bytes[1] = 2) =>
        \/ result = "Ok" /\ Len(frames) <= StackFrames
        \/ Len(frames) = StackFrames /\ result = "StackOverflow"

\* C9: the stack pointer is never below the stack base and never reaches the
\* display-buffer base.
C9_StackPointerInRange ==
    CHIP8_STACK_BASE_ADDR <= sp /\ sp < CHIP8_DISP_BUF_ADDR

\* C10: a DRAW executed while the draw gate is closed and no tick has elapsed
\* returns success, leaves the display and VF as they were and leaves PC at the
\* DRAW, whatever PC is.
C10_ClosedGateStep ==
    (Executing /\ NextOpcode[1] = 13 /\ ~frame_elapsed /\ ~draw_allowed) =>
        /\ result' = "Ok"
        /\ DisplayOf(ram') = DisplayOf(ram)
        /\ v'[15] = v[15]
        /\ pc' = pc

C10_ClosedGate == [][C10_ClosedGateStep]_vars

\* a call of exec_instruction
ExecCall == phase = "run" /\ ncalls' = ncalls + 1

\* the instruction word is Fx0A
IsWaitKey(opcode) == opcode # << >> /\ opcode[1] = 15 /\ <<opcode[3], opcode[4]>> = <<0, 10>>

\* a key-wait record is pending
Pending == waitkey_state[1] # None

\* C11: a call on a WAIT-KEY while no key has just been pressed returns success and
\* leaves PC at the instruction, whatever PC is, with the registers, I, SP and
\* memory unchanged.
C11_WaitKeyStallsStep ==
    (Executing /\ IsWaitKey(NextOpcode) /\ probe_keypress(last'.inp) = None) =>
        /\ result' = "Ok"
        /\ pc' = pc
        /\ v' = v /\ i' = i /\ sp' = sp /\ ram' = ram

C11_WaitKeyStalls == [][C11_WaitKeyStallsStep]_vars

\* C12: PC is still at the WAIT-KEY after the call that observed the press and
\* after every call made while the key is held, and advances by 2 on the call that
\* observes the release.
C12_AdvanceOnReleaseStep ==
    /\ (Executing /\ IsWaitKey(NextOpcode) /\ probe_keypress(last'.inp) # None) =>
           pc' = pc
    /\ (ExecCall /\ Pending /\ waitkey_state[1] \notin last'.inp.released) =>
           pc' = pc
    /\ (ExecCall /\ Pending /\ waitkey_state[1] \in last'.inp.released) =>
           pc' = (pc + 2) % 4096

C12_AdvanceOnRelease == [][C12_AdvanceOnReleaseStep]_vars

\* the value 0x0..0xF of a key of the keypad
LogicalValue(key) == (CHOOSE k \in 1..Len(keycodes) : keycodes[k] = key) - 1

\* the machine with the pending key committed: Vx written, the record cleared,
\* nothing else changed
Committed == [Machine EXCEPT !.v[waitkey_state[2]] = LogicalValue(waitkey_state[1]),
                             !.waitkey_state = <<None, 0>>]

\* C13: while the pending key K is not released a call writes no register and keeps
\* the record; the call that observes K released sets Vx to K's value and clears
\* the record, writing no other register, before it goes on as a call with no
\* record pending does.
C13_CommitOnReleaseStep ==
    (ExecCall /\ Pending) =>
        IF waitkey_state[1] \in last'.inp.released
        THEN \E rnd \in (IF ReadsRandom THEN 0..255 ELSE {0}) :
                LET r == exec_instruction(Committed, last'.inp, rnd, overflow_checks)
                IN  /\ v' = r.m.v
                    /\ waitkey_state' = r.m.waitkey_state
                    /\ result' = r.res
        ELSE v' = v /\ waitkey_state' = waitkey_state

C13_CommitOnRelease == [][C13_CommitOnReleaseStep]_vars

\* NumpadComma, pending for V1, was released: V1 = 0xA, and the next instruction
\* (V2 := 3) has run
C13_Witness ==
    /\ last.op = "exec" /\ last.inp.released = {"NumpadComma"} /\ result = "Ok"
    /\ waitkey_state = <<None, 0>>
    /\ v[1] = 10 /\ v[2] = 3 /\ pc = CHIP8_PC_START + 4

\* C14: a call made while the pending key is not released executes no
\* instruction, and when a tick has elapsed it decrements both timers and opens
\* the draw gate before it returns.
C14_TickWhileHeldStep ==
    (ExecCall /\ Pending /\ waitkey_state[1] \notin last'.inp.released) =>
        /\ result' = "Ok"
        /\ pc' = pc /\ ram' = ram
        /\ frame_elapsed =>
               /\ delay' = saturating_sub1(delay)
               /\ sound' = saturating_sub1(sound)
               /\ draw_allowed'

C14_TickWhileHeld == [][C14_TickWhileHeldStep]_vars

\* C15: load_program fails with ProgramLoadingError exactly when the program is
\* longer than 3232 bytes, a failed load changes no byte of the fresh memory, and a
\* program of 3232 bytes or fewer loads.
C15_ProgramTooLarge ==
    last.op = "load_program" =>
        /\ last.res = "ProgramLoadingError" <=> last.len > 3232
        /\ last.len <= 3232 => last.res = "Ok"
        /\ last.res # "Ok" => ram = Mem_new

\* a program of 3233 bytes was refused and the memory is as it was
C15_Witness ==
    /\ last.op = "load_program" /\ last.len = 3233
    /\ last.res = "ProgramLoadingError"
    /\ ram = Mem_new

\* C16: after a successful load_program on a fresh machine the bytes from 0x200 are
\* the program, the bytes 0x50..0x9F are the font table and every other byte,
\* stack region and display buffer included, is zero.
C16_LoadedImage ==
    (last.op = "load_program" /\ last.res = "Ok") =>
        \A a \in 0..(RAM_SIZE - 1) :
            Byte(ram, a) = IF 512 <= a /\ a < 512 + last.len THEN last.bytes[a - 512 + 1]
                           ELSE IF 80 <= a /\ a <= 159 THEN CHIP8_FONT[a - 80 + 1]
                           ELSE 0

\* a program of 3232 bytes is loaded: its last byte is just below the stack
C16_Witness ==
    /\ last.op = "load_program" /\ last.res = "Ok" /\ last.len = 3232
    /\ Byte(ram, CHIP8_STACK_BASE_ADDR - 1) = last.bytes[3232]
    /\ Byte(ram, CHIP8_STACK_BASE_ADDR - 1) # 0
    /\ Byte(ram, 80) = 240

\* the instruction words that match no defined pattern
Undefined(opcode) ==
    LET a == opcode[1]
        kk == opcode[3] * 16 + opcode[4]
    IN  \/ a = 0 /\ <<opcode[2], kk>> \notin { <<0, 224>>, <<0, 238>> }
        \/ a \in {5, 9} /\ opcode[4] # 0
        \/ a = 8 /\ opcode[4] \in (8..13) \cup {15}
        \/ a = 14 /\ kk \notin {158, 161}
        \/ a = 15 /\ kk \notin {7, 10, 21, 24, 30, 41, 51, 85, 101}

\* C17: a call on an instruction word that matches no defined pattern returns an
\* invalid-instruction error and leaves PC, the registers, I, SP and memory
\* unchanged.
C17_InvalidInstructionStep ==
    (Executing /\ Undefined(NextOpcode)) =>
        /\ result' = "InvalidInstructionError"
        /\ pc' = pc /\ v' = v /\ i' = i /\ sp' = sp /\ ram' = ram

C17_InvalidInstruction == [][C17_InvalidInstructionStep]_vars

\* a call that gets as far as the fetch, which fails
FetchFails == ExecCall /\ ~Pending /\ NextOpcode = << >>

\* C18: a memory access of exec_instruction that would cross address 4095 (the
\* fetch, the sprite read of DRAW, BCD, STORE-REGS, LOAD-REGS) makes the call
\* return an out-of-range error; it does not panic.  (The return-address read of
\* RETURN is made at SP - 2, which RETURN has checked to be in the stack region.)
C18_OutOfRangeStep ==
    /\ FetchFails => result' = "InvalidAccessError"
    /\ Executing =>
         LET a == NextOpcode[1]
             x == NextOpcode[2]
             kk == NextOpcode[3] * 16 + NextOpcode[4]
         IN  /\ (a = 13 /\ (draw_allowed \/ frame_elapsed) /\ i + NextOpcode[4] > RAM_SIZE)
                    => result' = "InvalidAccessError"
             /\ (a = 15 /\ kk = 51 /\ i >= 4094) => result' = "InvalidAccessError"
             /\ (a = 15 /\ kk \in {85, 101} /\ i + x > 4095)
                    => result' = "InvalidAccessError"

C18_OutOfRange == [][C18_OutOfRangeStep]_vars

\* the call rewinds PC to retry: a WAIT-KEY that finds no key, or a DRAW behind
\* the closed gate
Retries ==
    /\ Executing
    /\ \/ IsWaitKey(NextOpcode) /\ probe_keypress(last'.inp) = None
       \/ NextOpcode[1] = 13 /\ ~draw_allowed /\ ~frame_elapsed

\* C19: after every call PC is at most 0xFFF, and the PC updates of the retries
\* and of RETURN (with its auto-advance) stay within the 16-bit cell: the call
\* does not panic on them.
C19_PcMaskedStep ==
    /\ ExecCall => pc' <= 4095
    /\ Retries => result' # "Panic"
    /\ (Executing /\ NextOpcode = <<0, 0, 14, 14>>) => result' # "Panic"

C19_PcMasked == [][C19_PcMaskedStep]_vars

\* the instruction word the call executes, << >> when it executes none
Executed ==
    IF Pending /\ waitkey_state[1] \notin last'.inp.released THEN << >> ELSE NextOpcode

\* the call executes Fx15 (kk = 0x15) or Fx18 (kk = 0x18)
SetsTimer(kk) ==
    /\ Executed # << >>
    /\ Executed[1] = 15 /\ Executed[3] * 16 + Executed[4] = kk

\* C20: a call in which a tick has elapsed decrements each timer by 1, saturating
\* at 0; a call in which none has elapsed leaves each timer alone; only Fx15 sets
\* the delay timer and only Fx18 the sound timer, to Vx.
C20_TimersStep ==
    ExecCall =>
        /\ delay' = IF SetsTimer(21) THEN v'[Executed[2]]
                    ELSE IF frame_elapsed THEN saturating_sub1(delay) ELSE delay
        /\ sound' = IF SetsTimer(24) THEN v'[Executed[2]]
                    ELSE IF frame_elapsed THEN saturating_sub1(sound) ELSE sound

C20_Timers == [][C20_TimersStep]_vars

(***************************************************************************)
(* Claims about waiting, the driver and the blit, checked under Spec       *)
(***************************************************************************)
\* C22: no call of exec_instruction suspends its thread: the waits of the draw
\* gate and of the key-wait are returns to the caller, so the end of the 60Hz
\* frame is never reached inside a call (a call that starts before the end of
\* the frame returns before it).
C22_NoSuspensionStep ==
    ExecCall /\ ~frame_elapsed => ~frame_elapsed'

C22_NoSuspension == [][C22_NoSuspensionStep]_vars

\* C23: after a load_program that failed the driver never calls
\* exec_instruction, so no instruction of the session is fetched or executed.
C23_NoExecAfterFailedLoadStep ==
    last.op = "load_program" /\ last.res # "Ok" => ~ExecCall

C23_NoExecAfterFailedLoad == [][C23_NoExecAfterFailedLoadStep]_vars

\* C26: a DRAW that waited on the closed gate is executed by the first call made
\* after the 60Hz tick has elapsed: that call returns, has blitted the sprite,
\* has set VF to the collision flag, leaves the gate closed and PC two further.
\* Without a tick a closed gate stays closed and a DRAW behind it draws nothing,
\* so at most one DRAW blits between two ticks.
C26_GateReopensStep ==
    /\ (Executing /\ NextOpcode[1] = 13 /\ ~draw_allowed /\ frame_elapsed) =>
          LET blit == load_sprite(ram, Mem_get(ram, i, NextOpcode[4]).bytes,
                                  v[NextOpcode[2]], v[NextOpcode[3]], NextOpcode[4],
                                  overflow_checks)
          IN  /\ result' = "Ok"
              /\ DisplayOf(ram') = DisplayOf(blit.ram)
              /\ v'[15] = (IF blit.flag THEN 1 ELSE 0)
              /\ ~draw_allowed'
              /\ pc' = (pc + 2) % 4096
    /\ (ExecCall /\ ~draw_allowed /\ ~frame_elapsed) => ~draw_allowed'
    /\ (Executing /\ NextOpcode[1] = 13 /\ ~draw_allowed /\ ~frame_elapsed) =>
          DisplayOf(ram') = DisplayOf(ram) /\ v'[15] = v[15]

C26_GateReopens == [][C26_GateReopensStep]_vars

\* C27: 8xy1, 8xy2 and 8xy3 return, leave VF = 0 for every x and y (x = F
\* included, where the result is overwritten), set Vx for x other than F to the
\* bitwise OR, AND, XOR of Vx and Vy, and change no other register.
C27_LogicResetsFlagStep ==
    (Executing /\ NextOpcode[1] = 8 /\ NextOpcode[4] \in {1, 2, 3}) =>
        LET x == NextOpcode[2]
            y == NextOpcode[3]
            op == NextOpcode[4]
            Want(b) == CASE op = 1 -> Bit(v[x], b) = 1 \/ Bit(v[y], b) = 1
                         [] op = 2 -> Bit(v[x], b) = 1 /\ Bit(v[y], b) = 1
                         [] op = 3 -> Bit(v[x], b) # Bit(v[y], b)
        IN  /\ result' = "Ok"
            /\ v'[15] = 0
            /\ x # 15 => \A b \in 0..7 : (Bit(v'[x], b) = 1) <=> Want(b)
            /\ \A r \in (0..15) \ {x, 15} : v'[r] = v[r]

C27_LogicResetsFlag == [][C27_LogicResetsFlagStep]_vars

\* VF := 3; V0 := 5; 8F01 has left VF = 0, not 7
C27_Witness ==
    /\ last.op = "exec" /\ last.bytes = <<8, 15, 0, 1>> /\ result = "Ok"
    /\ v[0] = 5 /\ v[15] = 0

\* C28 as stated: after 8xy6 Vx = Vy >> 1 and VF = bit 0 of Vy, after 8xyE
\* Vx = (Vy << 1) mod 256 and VF = bit 7 of Vy, for every x and y, and Vy is
\* unchanged when y is neither x nor F.
C28_ShiftAnyRegStep ==
    (Executing /\ NextOpcode[1] = 8 /\ NextOpcode[4] \in {6, 14}) =>
        LET x == NextOpcode[2]
            y == NextOpcode[3]
        IN  /\ result' = "Ok"
            /\ NextOpcode[4] = 6 => v'[x] = v[y] \div 2 /\ v'[15] = v[y] % 2
            /\ NextOpcode[4] = 14 => v'[x] = (v[y] * 2) % 256 /\ v'[15] = v[y] \div 128
            /\ y \notin {x, 15} => v'[y] = v[y]

C28_ShiftAnyReg == [][C28_ShiftAnyRegStep]_vars

\* C28, amended: after 8xy6 VF = bit 0 of Vy and after 8xyE VF = bit 7 of Vy, for
\* every x and y; when x is not F, Vx = Vy >> 1 and Vx = (Vy << 1) mod 256; Vy is
\* unchanged when y is neither x nor F.  When x is F the register holds the bit
\* shifted out, which is written last.
C28_ShiftStep ==
    (Executing /\ NextOpcode[1] = 8 /\ NextOpcode[4] \in {6, 14}) =>
        LET x == NextOpcode[2]
            y == NextOpcode[3]
        IN  /\ result' = "Ok"
            /\ NextOpcode[4] = 6 =>
                 /\ v'[15] = v[y] % 2
                 /\ x # 15 => v'[x] = v[y] \div 2
            /\ NextOpcode[4] = 14 =>
                 /\ v'[15] = v[y] \div 128
                 /\ x # 15 => v'[x] = (v[y] * 2) % 256
            /\ y \notin {x, 15} => v'[y] = v[y]

C28_Shift == [][C28_ShiftStep]_vars

\* V0 := 3; V1 := 129; 8016 has left V0 = 64, VF = 1 and V1 = 129
C28_Witness ==
    /\ last.op = "exec" /\ last.bytes = <<8, 0, 1, 6>> /\ result = "Ok"
    /\ v[0] = 64 /\ v[1] = 129 /\ v[15] = 1

\* this step executes STORE (Fx55) / LOAD (Fx65)
IsStore == Executing /\ NextOpcode[1] = 15 /\ <<NextOpcode[3], NextOpcode[4]>> = <<5, 5>>
IsLoad == Executing /\ NextOpcode[1] = 15 /\ <<NextOpcode[3], NextOpcode[4]>> = <<6, 5>>

\* what STORE does but for I: with I + x <= 0xFFF it returns, memory holds V0..Vx at
\* I..I+x and is otherwise unchanged, and no register changes; with I + x > 0xFFF
\* it fails with the out-of-range error and changes neither memory nor I
StoreWrites ==
    LET x == NextOpcode[2]
    IN  /\ i + x <= 4095 =>
            /\ result' = "Ok"
            /\ \A a \in 0..(RAM_SIZE - 1) :
                 ram'[a + 1] = (IF a >= i /\ a <= i + x THEN v[a - i] ELSE ram[a + 1])
            /\ v' = v
        /\ i + x > 4095 =>
            /\ result' = "InvalidAccessError"
            /\ ram' = ram /\ v' = v /\ i' = i

\* C29 as stated: STORE with I + x <= 0xFFF writes V0..Vx to I..I+x and nothing
\* else, and sets I to I + x + 1; with I + x > 0xFFF it fails and changes nothing.
C29_StoreExactStep ==
    IsStore => StoreWrites /\ (i + NextOpcode[2] <= 4095 => i' = i + NextOpcode[2] + 1)

C29_StoreExact == [][C29_StoreExactStep]_vars

\* C29, amended: STORE with I + x <= 0xFFF writes V0..Vx to I..I+x and nothing
\* else, and sets I to (I + x + 1) mod 4096; with I + x > 0xFFF it fails and
\* changes nothing.
C29_StoreStep ==
    IsStore => StoreWrites /\ (i + NextOpcode[2] <= 4095 =>
                                   i' = (i + NextOpcode[2] + 1) % 4096)

C29_Store == [][C29_StoreStep]_vars

\* V0 := 17; I := FFF; F055 has written 17 to the last byte of memory and left I = 0
C29_Witness ==
    /\ last.op = "exec" /\ last.bytes = <<15, 0, 5, 5>> /\ result = "Ok"
    /\ ram[RAM_SIZE] = 17 /\ v[0] = 17 /\ i = 0

\* this step is the LOAD of V0..Vx that follows a STORE of V0..Vx, with I back at
\* the STORE's I and memory as the STORE left it
LoadAfterStore == IsLoad /\ last_store.x = NextOpcode[2] /\ last_store.i = i

\* what LOAD after STORE does but for I: it returns, V0..Vx are what the STORE
\* stored, and the other registers and memory are unchanged
LoadRestores ==
    LET x == NextOpcode[2]
    IN  /\ result' = "Ok"
        /\ \A r \in 0..15 : v'[r] = (IF r <= x THEN last_store.v[r] ELSE v[r])
        /\ ram' = ram

\* C30 as stated: Fx65 after Fx55, with V0..Vx changed in between and I reset,
\* restores V0..Vx, leaves the other registers and memory unchanged and sets I to
\* I + x + 1.
C30_LoadInvertsStoreExactStep ==
    LoadAfterStore => LoadRestores /\ i' = i + NextOpcode[2] + 1

C30_LoadInvertsStoreExact == [][C30_LoadInvertsStoreExactStep]_vars

\* C30, amended: Fx65 after Fx55, with V0..Vx changed in between and I reset,
\* restores V0..Vx, leaves the other registers and memory unchanged and sets I to
\* (I + x + 1) mod 4096.
C30_LoadInvertsStoreStep ==
    LoadAfterStore => LoadRestores /\ i' = (i + NextOpcode[2] + 1) % 4096

C30_LoadInvertsStore == [][C30_LoadInvertsStoreStep]_vars

\* V0 := 1, V7 := 7, VF := 15 stored at 300 by FF55, V0 := 9 and VF := 0 since:
\* FF65 has brought back V0 = 1 and VF = 15
C30_Witness ==
    /\ last.op = "exec" /\ last.bytes = <<15, 15, 6, 5>> /\ result = "Ok"
    /\ last_store.v[0] = 1 /\ last_store.v[15] = 15
    /\ v[0] = 1 /\ v[7] = 7 /\ v[15] = 15 /\ i = 784

\* C31: DCB (Fx33) with I <= 0xFFD returns and leaves at I, I+1, I+2 three digits
\* in 0..9 with 100 * mem[I] + 10 * mem[I+1] + mem[I+2] = Vx; I and every register
\* are unchanged.
C31_BcdStep ==
    (Executing /\ NextOpcode[1] = 15 /\ <<NextOpcode[3], NextOpcode[4]>> = <<3, 3>>
       /\ i <= 4093) =>
        /\ result' = "Ok"
        /\ \A k \in 1..3 : ram'[i + k] \in 0..9
        /\ 100 * ram'[i + 1] + 10 * ram'[i + 2] + ram'[i + 3] = v[NextOpcode[2]]
        /\ i' = i /\ v' = v

C31_Bcd == [][C31_BcdStep]_vars

\* VF := 209; I := FFD; FF33 has left 2, 0, 9 in the last three bytes of memory
C31_Witness ==
    /\ last.op = "exec" /\ last.bytes = <<15, 15, 3, 3>> /\ result = "Ok"
    /\ v[15] = 209 /\ i = 4093
    /\ <<ram[4094], ram[4095], ram[4096]>> = <<2, 0, 9>>

\* C32: for every Vx, Ex9E returns with PC four further when the key Vx selects is
\* held and two further when it is not, and ExA1 the other way round.
C32_SkipKeyStep ==
    (Executing /\ NextOpcode[1] = 14
       /\ <<NextOpcode[3], NextOpcode[4]>> \in {<<9, 14>>, <<10, 1>>}) =>
        LET held == KeyOfByte(v[NextOpcode[2]] % 16) \in last'.inp.held
            skip == IF NextOpcode[3] = 9 THEN held ELSE ~held
        IN  /\ result' = "Ok"
            /\ pc' = (pc + (IF skip THEN 4 ELSE 2)) % 4096

C32_SkipKey == [][C32_SkipKeyStep]_vars

\* C33: every call that executes an instruction with success adds one entry to
\* pc_backtrace, and the PC of that entry is the address the instruction was
\* fetched from.  (A DRAW behind the closed gate and a WAIT-KEY that found no key
\* are retried, not executed.)
C33_HistoryStep ==
    (Executing /\ result' = "Ok" /\ ~Retries) =>
        /\ pc_backtrace'.cur = (pc_backtrace.cur + 1) % BACKTRACE_SIZE
        /\ pc_backtrace'.trace[pc_backtrace'.cur][1] = pc
        /\ \A k \in 0..(BACKTRACE_SIZE - 1) :
             k # pc_backtrace'.cur => pc_backtrace'.trace[k] = pc_backtrace.trace[k]

C33_History == [][C33_HistoryStep]_vars

\* exec_instruction with the recording into pc_backtrace removed: the arms as they
\* are, then only the advance of PC
Unrecorded(m, inp, rnd, oc) ==
    LET w == ResolveWaitkey(m, inp)
        m1 == Tick(w.m)
        r == Dispatch(m1, Fetch(m1), inp, rnd, oc)
    IN  IF w.res # "go" THEN w
        ELSE IF Fetch(m1) = << >> THEN Ret(m1, "Panic")
        ELSE IF r.res # "go" THEN r
        ELSE IF r.m.pc + 2 >= U16 /\ oc THEN Ret(r.m, "Panic")
        ELSE Ret([r.m EXCEPT !.pc = ((r.m.pc + 2) % U16) % 4096], "Ok")

\* C34: recording into the execution history does not affect emulation: every call
\* leaves PC, the registers, I, SP, the timers and memory, and returns, as the
\* call without the recording would; the recording never panics.
C34_RecordingTransparentStep ==
    ExecCall =>
        \E rnd \in (IF ReadsRandom THEN 0..255 ELSE {0}) :
           \E r \in {Unrecorded(Machine, last'.inp, rnd, overflow_checks)} :
             /\ result' = r.res
             /\ <<pc', v', i', sp', delay', sound', ram'>>
                  = <<r.m.pc, r.m.v, r.m.i, r.m.sp, r.m.delay, r.m.sound, r.m.ram>>

C34_RecordingTransparent == [][C34_RecordingTransparentStep]_vars

\* C35: I is at most 0xFFF before and after every call, and a call changes I only
\* when it executes LOAD-I (Annn), ADD-I (Fx1E), FONT-ADDR (Fx29), STORE (Fx55)
\* or LOAD-REGS (Fx65).
C35_IndexInRangeStep ==
    ExecCall =>
        /\ i <= 4095 /\ i' <= 4095
        /\ i' # i =>
             /\ NextOpcode # << >>
             /\ \/ NextOpcode[1] = 10
                \/ /\ NextOpcode[1] = 15
                   /\ <<NextOpcode[3], NextOpcode[4]>>
                        \in {<<1, 14>>, <<2, 9>>, <<5, 5>>, <<6, 5>>}

C35_IndexInRange == [][C35_IndexInRangeStep]_vars

\* I := FFF; V0 := 255; F01E has left I = (0xFFF + 0xFF) mod 4096 = 0xFE
C35_Witness ==
    /\ last.op = "exec" /\ last.bytes = <<15, 0, 1, 14>> /\ result = "Ok"
    /\ v[0] = 255 /\ i = 254

\* the last call of exec_instruction returned an error
Failed == last.op = "exec" /\ result \notin {"None", "Ok", "Panic"}

\* C36: the call of exec_instruction that returns an error makes the driver
\* return with that error, and nothing follows it: no further call, no retry, no
\* change of the machine.
C36_StopsAtErrorStep ==
    /\ (ExecCall /\ result' \notin {"Ok", "Panic"}) =>
           phase' = "halted" /\ last'.res = result'
    /\ Failed => UNCHANGED vars

C36_StopsAtError == [][C36_StopsAtErrorStep]_vars

\* I := FFF; STORE V0..V1: the second call failed and the driver has stopped
C36_Witness ==
    /\ Failed /\ result = "InvalidAccessError" /\ last.bytes = <<15, 1, 5, 5>>
    /\ phase = "halted" /\ ncalls = 2

\* C37: a call of exec_instruction that returns an error leaves the machine as it
\* was before the call: PC, V0..VF, I, SP, the timers, the draw gate and memory.
\* (Stated for the calls in which no 60Hz tick falls and no key-wait is pending,
\* so that the instruction is all the call does.)
C37_FailureAtomicStep ==
    (Executing /\ ~frame_elapsed /\ result' \notin {"Ok", "Panic"}) =>
        <<pc', v', i', sp', delay', sound', draw_allowed', ram'>>
          = <<pc, v, i, sp, delay, sound, draw_allowed, ram>>

C37_FailureAtomic == [][C37_FailureAtomicStep]_vars

\* C38: WAIT-KEY and the key skips number the keys alike: when the call that sees
\* the pending key K released stores K's value in Vx, the key that Ex9E / ExA1
\* test for that value of Vx is K.
C38_KeyNumberingStep ==
    (ExecCall /\ Pending /\ waitkey_state[1] \in last'.inp.released
       /\ v'[waitkey_state[2]] = ValueOfKey(waitkey_state[1])) =>
        /\ KeyOfByte(v'[waitkey_state[2]]) = waitkey_state[1]
        /\ is_key_pressed([NoInput EXCEPT !.held = {waitkey_state[1]}],
                          v'[waitkey_state[2]]).held

C38_KeyNumbering == [][C38_KeyNumberingStep]_vars

(***************************************************************************)
(* Claims about the threads of main.rs, checked under SpecApp              *)
(***************************************************************************)
\* C21: while the event loop holds its read guard no update is under way: the
\* World it reads is the World as the last finished update left it, and what a
\* draw has read is the position of that World, never a mix of two.
C21_NoPartialUpdate ==
    /\ app.mt \in {"draw_x", "draw_y", "drawn"} =>
           /\ ~app.writer
           /\ app.world = app.committed
    /\ app.mt = "drawn" => app.seen = <<app.committed.box_x, app.committed.box_y>>

\* a draw has read the World that the third update left, while world_thread is
\* waiting for the write guard
C21_Witness ==
    /\ app.mt = "drawn" /\ app.updates = 3 /\ app.wt = "loop"
    /\ app.seen = <<27, 19>>

====
